---- MODULE Spec2Model ----
(***************************************************************************)
(* A model of mygit (cmd/mygit): the loose object store, the blob and tree *)
(* encodings, the tree parser and the recursive tree builder.              *)
(*                                                                         *)
(* Bytes are the naturals 0..255 and a Go []byte or string is a sequence   *)
(* of bytes.  A Go panic (a slice bound out of range) ends the process;    *)
(* results carry a field st that is "ok", "err" (an error value returned   *)
(* to the caller) or "panic" (the process aborted).                        *)
(***************************************************************************)
EXTENDS Integers, Sequences, FiniteSets, TLC

(***************************************************************************)
(* Bounds of the model.                                                    *)
(***************************************************************************)
\* commands run in one behaviour
MaxCmds == 2
\* I/O faults the environment injects in one behaviour
MaxFaults == 1
\* entries of a tree handed to the serializer in the codec harness
MaxEntries == 2

(***************************************************************************)
(* Byte strings of the program.                                            *)
(***************************************************************************)
\* width of a raw hash inside a tree body: rest[:20], rest[20:]
HashLen == 20

NUL == 0
SPACE == 32
SLASH == 47

ObjectModeFile == <<49, 48, 48, 54, 52, 52>>
ObjectModeDir == <<52, 48, 48, 48, 48>>
TreePrefix == <<116, 114, 101, 101, 32>>
CommitPrefix == <<99, 111, 109, 109, 105, 116>>
BlobPrefix == <<98, 108, 111, 98, 32>>
DotGit == <<46, 103, 105, 116>>
Dot == <<46>>
\* ".git/objects"
ObjectsDir == <<46, 103, 105, 116, 47, 111, 98, 106, 101, 99, 116, 115>>

ObjKindBlob == 0
ObjKindTree == 1
ObjKindCommit == 2

(***************************************************************************)
(* Helpers on byte sequences.                                              *)
(***************************************************************************)
From(b, i) == IF i > Len(b) THEN <<>> ELSE SubSeq(b, i, Len(b))

HasPrefix(s, p) == Len(s) >= Len(p) /\ SubSeq(s, 1, Len(p)) = p

\* strings.Compare: byte-wise lexicographic order, -1, 0 or 1
RECURSIVE Compare(_, _)
Compare(a, b) ==
    IF a = <<>> /\ b = <<>> THEN 0
    ELSE IF a = <<>> THEN -1
    ELSE IF b = <<>> THEN 1
    ELSE IF a[1] < b[1] THEN -1
    ELSE IF a[1] > b[1] THEN 1
    ELSE Compare(Tail(a), Tail(b))

\* fmt's %d of a non-negative int
RECURSIVE Decimal(_)
Decimal(n) == IF n < 10 THEN <<48 + n>> ELSE Decimal(n \div 10) \o <<48 + (n % 10)>>

HexDigit(n) == IF n < 10 THEN 48 + n ELSE 87 + n

\* fmt's %x of a byte slice: two lower-case hex digits per byte
Hex(b) ==
    [i \in 1..(2 * Len(b)) |->
        IF i % 2 = 1 THEN HexDigit(b[(i + 1) \div 2] \div 16) ELSE HexDigit(b[i \div 2] % 16)]

\* the sum of b[lo..hi], and the sum of i * b[i] for i in lo..hi
RECURSIVE SumBytes(_, _, _)
SumBytes(b, lo, hi) ==
    IF lo > hi THEN 0
    ELSE IF lo = hi THEN b[lo]
    ELSE SumBytes(b, lo, (lo + hi) \div 2) + SumBytes(b, (lo + hi) \div 2 + 1, hi)

RECURSIVE SumWeighted(_, _, _)
SumWeighted(b, lo, hi) ==
    IF lo > hi THEN 0
    ELSE IF lo = hi THEN lo * b[lo]
    ELSE SumWeighted(b, lo, (lo + hi) \div 2) + SumWeighted(b, (lo + hi) \div 2 + 1, hi)

\* the position of the last sep in b, 0 when there is none
LastIndexByte(b, sep) ==
    IF \E i \in 1..Len(b) : b[i] = sep
    THEN CHOOSE i \in 1..Len(b) : b[i] = sep /\ \A j \in (i + 1)..Len(b) : b[j] # sep
    ELSE 0

\* bytes.IndexByte: the position (from 1) of the first sep in b, 0 when there is none
IndexByte(b, sep) ==
    IF \E i \in 1..Len(b) : b[i] = sep
    THEN CHOOSE i \in 1..Len(b) : b[i] = sep /\ \A j \in 1..(i - 1) : b[j] # sep
    ELSE 0

\* splitOn: the bytes before the first sep and the bytes after it; the whole
\* input and nil when there is no sep
splitOn(b, sep) ==
    LET i == IndexByte(b, sep)
    IN  IF i = 0 THEN <<b, <<>>>> ELSE <<SubSeq(b, 1, i - 1), From(b, i + 1)>>

(***************************************************************************)
(* sha1.Sum, abstracted: a pure, order-sensitive digest of 20 bytes.  The  *)
(* 16-bit state of a position-weighted sum is spread over the 20 bytes, so *)
(* digests contain 0x00 and other bytes as real digests do.                *)
(***************************************************************************)
\* the 16-bit state: every byte weighted by its position
Fold(b) ==
    (7 + 31 * SumWeighted(b, 1, Len(b)) + SumBytes(b, 1, Len(b)) + Len(b) * (Len(b) + 17))
        % 65536

Sha1Sum(b) ==
    LET h == Fold(b)
    IN  [i \in 1..HashLen |->
            IF i = 1 THEN h % 256
            ELSE IF i = 2 THEN h \div 256
            ELSE IF i = 3 THEN 0
            ELSE (h + 37 * i) % 256]

(***************************************************************************)
(* compress / decompress: the zlib container.  The stream is the 2-byte    *)
(* header 0x78 0x9c, the data (deflate, as stored bytes) and the Adler-32  *)
(* checksum of the data in 4 big-endian bytes.                             *)
(***************************************************************************)
ZlibHeader == <<120, 156>>

\* Adler-32: a is 1 plus the sum of the bytes, b the sum of the values a
\* takes after each byte, both modulo 65521
Adler32(data) ==
    LET n == Len(data)
        sum == SumBytes(data, 1, n)
        a == (1 + sum) % 65521
        b == (n + (n + 1) * sum - SumWeighted(data, 1, n)) % 65521
    IN  <<b \div 256, b % 256, a \div 256, a % 256>>

\* everything a complete compress() leaves in the file
Compressed(data) == ZlibHeader \o data \o Adler32(data)

\* decompress: the data, or an error for a stream that is cut or damaged
decompress(file) ==
    IF Len(file) < 6 \/ SubSeq(file, 1, 2) # ZlibHeader
    THEN [st |-> "err", data |-> <<>>]
    ELSE LET data == SubSeq(file, 3, Len(file) - 4)
         IN  IF From(file, Len(file) - 3) = Adler32(data)
             THEN [st |-> "ok", data |-> data]
             ELSE [st |-> "err", data |-> <<>>]

(***************************************************************************)
(* Objects (tree.go: type Object) and the tree codec.                      *)
(***************************************************************************)
Object(kind, hash, name, mode) ==
    [Kind |-> kind, ShaHash |-> hash, FileName |-> name, Mode |-> mode]

\* parseNextTreeEntry's choice of Kind from the entry's name
KindOfName(name) ==
    IF HasPrefix(name, <<116, 114, 101, 101>>) THEN ObjKindTree
    ELSE IF HasPrefix(name, CommitPrefix) THEN ObjKindCommit
    ELSE ObjKindBlob

\* parseNextTreeEntry: the next entry and the bytes after it; an error when the
\* mode or the name is empty; a panic when fewer than 20 bytes follow the
\* header (rest[:20] or rest[20:] is out of range)
parseNextTreeEntry(treeBody) ==
    LET hr == splitOn(treeBody, NUL)
        mn == splitOn(hr[1], SPACE)
        rest == hr[2]
    IN  IF Len(mn[1]) = 0 \/ Len(mn[2]) = 0
        THEN [st |-> "err", entry |-> <<>>, next |-> <<>>]
        ELSE IF Len(rest) < HashLen
        THEN [st |-> "panic", entry |-> <<>>, next |-> <<>>]
        ELSE [st |-> "ok",
              entry |-> Object(KindOfName(mn[2]), SubSeq(rest, 1, HashLen), mn[2], mn[1]),
              next |-> From(rest, HashLen + 1)]

\* the loop of parseTreeObject: entries until the body is used up
RECURSIVE parseEntries(_, _)
parseEntries(body, entries) ==
    IF Len(body) = 0 THEN [st |-> "ok", entries |-> entries]
    ELSE LET r == parseNextTreeEntry(body)
         IN  IF r.st # "ok" THEN [st |-> r.st, entries |-> <<>>]
             ELSE parseEntries(r.next, Append(entries, r.entry))

\* parseTreeObject
parseTreeObject(treeBytes) ==
    LET hb == splitOn(treeBytes, NUL)
    IN  IF Len(hb[1]) = 0 \/ Len(hb[2]) = 0 THEN [st |-> "err", entries |-> <<>>]
        ELSE IF ~HasPrefix(hb[1], TreePrefix) THEN [st |-> "err", entries |-> <<>>]
        ELSE parseEntries(hb[2], <<>>)

\* one entry of a tree body
serializeEntry(entry) ==
    entry.Mode \o <<SPACE>> \o entry.FileName \o <<NUL>> \o entry.ShaHash

RECURSIVE serializeBody(_)
serializeBody(entries) ==
    IF entries = <<>> THEN <<>>
    ELSE serializeEntry(Head(entries)) \o serializeBody(Tail(entries))

\* serializeTreeObject
serializeTreeObject(entries) ==
    LET body == serializeBody(entries)
    IN  TreePrefix \o Decimal(Len(body)) \o <<NUL>> \o body

\* the object bytes createObjectFromFile builds for a file's contents
blobBytes(contents) == BlobPrefix \o Decimal(Len(contents)) \o <<NUL>> \o contents

\* filepath.Join: the non-empty elements, separated by slashes
RECURSIVE Join(_)
Join(elems) ==
    IF elems = <<>> THEN <<>>
    ELSE IF Head(elems) = <<>> THEN Join(Tail(elems))
    ELSE LET r == Join(Tail(elems))
         IN  IF r = <<>> THEN Head(elems) ELSE Head(elems) \o <<SLASH>> \o r

\* filePathFromObjectHash: hash[:2] panics on a string shorter than 2
filePathFromObjectHash(hash) ==
    IF Len(hash) < 2 THEN [st |-> "panic", path |-> <<>>]
    ELSE [st |-> "ok", path |-> Join(<<ObjectsDir, SubSeq(hash, 1, 2), From(hash, 3)>>)]

(***************************************************************************)
(* The working directory.  A worktree is a set of nodes; a node's path is  *)
(* the sequence of its names below the working directory, the root being   *)
(* <<>>.  The worktree is fixed during a behaviour.                        *)
(***************************************************************************)
NmDash == <<45>>
NmA == <<97>>
NmB == <<98>>
NmS == <<115>>
NmT == <<116>>

ContentEmpty == <<>>
ContentHi == <<104, 105>>
ContentNul == <<97, 0, 98>>

FileNode(path, data) == [path |-> path, dir |-> FALSE, data |-> data]
DirNode(path) == [path |-> path, dir |-> TRUE, data |-> <<>>]

OptFile(path, contents) == {{}} \cup {{FileNode(path, c)} : c \in contents}

\* s: absent, a directory holding only the empty directory s/t, or a
\* directory holding the file s/b and the directory s/t with the file s/t/a
OptSub ==
    { {},
      {DirNode(<<NmS>>), DirNode(<<NmS, NmT>>)},
      {DirNode(<<NmS>>), FileNode(<<NmS, NmB>>, ContentNul),
       DirNode(<<NmS, NmT>>), FileNode(<<NmS, NmT, NmA>>, ContentHi)} }

\* .git: absent, the repository's directory, or a file (as in a linked worktree)
OptGit == { {}, {DirNode(<<DotGit>>)}, {FileNode(<<DotGit>>, ContentHi)} }

Worktrees ==
    { d \cup g \cup a \cup s :
        d \in OptFile(<<NmDash>>, {ContentHi}),
        g \in OptGit,
        a \in OptFile(<<NmA>>, {ContentEmpty}),
        s \in OptSub }

Node(tree, p) == CHOOSE n \in tree : n.path = p

IsUnder(p, dir) == Len(p) > Len(dir) /\ SubSeq(p, 1, Len(dir)) = dir

\* the names of the direct children of dir
Children(tree, dir) ==
    { n.path[Len(n.path)] : n \in { m \in tree : Len(m.path) = Len(dir) + 1 /\ IsUnder(m.path, dir) } }

\* the path string the program holds for a directory: "." for the root
PathStr(p) == IF p = <<>> THEN Dot ELSE Join(p)

\* filepath.Base of the path string of p
Base(p) == IF p = <<>> THEN Dot ELSE p[Len(p)]

\* every order in which the system may list a set of names
Orders(S) ==
    { o \in [1..Cardinality(S) -> S] : \A i, j \in 1..Cardinality(S) : i # j => o[i] # o[j] }

RECURSIVE InsertName(_, _)
InsertName(n, sorted) ==
    IF sorted = <<>> THEN <<n>>
    ELSE IF Compare(n, Head(sorted)) < 0 THEN <<n>> \o sorted
    ELSE <<Head(sorted)>> \o InsertName(n, Tail(sorted))

RECURSIVE SortNames(_)
SortNames(names) ==
    IF names = <<>> THEN <<>> ELSE InsertName(Head(names), SortNames(Tail(names)))

\* the listing used as the system returned it
readDirNames_unsorted(listing) == listing

\* filepath.Walk's readDirNames: the listing of a directory, sorted
readDirNames(listing) == SortNames(listing)

RECURSIVE InsertEntry(_, _)
InsertEntry(e, sorted) ==
    IF sorted = <<>> THEN <<e>>
    ELSE IF Compare(e.FileName, Head(sorted).FileName) < 0 THEN <<e>> \o sorted
    ELSE <<Head(sorted)>> \o InsertEntry(e, Tail(sorted))

\* slices.SortFunc(entries, by FileName with strings.Compare)
RECURSIVE SortEntries(_)
SortEntries(entries) ==
    IF entries = <<>> THEN <<>> ELSE InsertEntry(Head(entries), SortEntries(Tail(entries)))

(***************************************************************************)
(* State.                                                                  *)
(***************************************************************************)
VARIABLES
    fs,         \* the worktree
    store,      \* the object files: path -> bytes in the file
    pc,         \* "idle", "walk" (inside filepath.Walk) or "io" (inside writeToDisk)
    stack,      \* the active createTreeFromDir calls, outermost first
    io,         \* the writeToDisk call in progress
    cmd,        \* the command in progress
    out,        \* the outcome of the last command that ended
    ncmds,      \* commands started
    faults,     \* I/O faults injected
    pre,        \* the store as it was when the last writeToDisk call began
    roots,      \* what each write-tree command that ended without error printed, in order
    hashed,     \* <<hash printed, contents>> of the hash-object commands that succeeded
    rets,       \* what the createTreeFromDir calls of this command returned
    trees,      \* the tree object files this command created, with their entries
    failedDirs, \* the directories whose build a failing child aborted
    childFault, \* a fault hit the processing of some child in this command
    done,       \* the object files whose write ended in this command, as written
    cOp,        \* codec harness: the operation applied last
    cIn,        \* codec harness: the entry list given to serializeTreeObject
    cOut        \* codec harness: the bytes produced and the parser's result

codecVars == <<cOp, cIn, cOut>>
histVars == <<roots, hashed, rets, trees, failedDirs, childFault, done>>
vars == <<fs, store, pc, stack, io, cmd, out, ncmds, faults, pre, histVars, codecVars>>

NilObject == Object(-1, <<>>, <<>>, <<>>)
NoIO == [step |-> "none", path |-> <<>>, data |-> <<>>, obj |-> NilObject, caller |-> "none"]
NoCmd == [name |-> "none", arg |-> <<>>]
NoOut == [cmd |-> "none", arg |-> <<>>, st |-> "none", err |-> "", stdout |-> <<>>]
NoCodec == [st |-> "none", entries |-> <<>>, bytes |-> <<>>]

Outcome(c, arg, st, err, stdout) ==
    [cmd |-> c, arg |-> arg, st |-> st, err |-> err, stdout |-> stdout]

Frame(dir, names) == [dir |-> dir, names |-> names, entries |-> <<>>]

Top == stack[Len(stack)]

SetTop(f) == SubSeq(stack, 1, Len(stack) - 1) \o <<f>>

\* store with the file at path holding bytes
Put(path, bytes) == [p \in DOMAIN store \cup {path} |-> IF p = path THEN bytes ELSE store[p]]

\* the writeToDisk call of object obj with contents data: "%x" of the hash,
\* then filePathFromObjectHash
BeginWrite(obj, data, caller) ==
    [step |-> "mkdir", path |-> filePathFromObjectHash(Hex(obj.ShaHash)).path,
     data |-> data, obj |-> obj, caller |-> caller]

InitStore == [p \in {} |-> <<>>]

IdleState ==
    /\ store = InitStore
    /\ pc = "idle"
    /\ stack = <<>>
    /\ io = NoIO
    /\ cmd = NoCmd
    /\ out = NoOut
    /\ ncmds = 0
    /\ faults = 0
    /\ pre = InitStore
    /\ roots = <<>>
    /\ hashed = {}
    /\ rets = {}
    /\ trees = {}
    /\ failedDirs = {}
    /\ childFault = FALSE
    /\ done = InitStore

Init ==
    /\ fs \in Worktrees
    /\ IdleState
    /\ cOp = "none"
    /\ cIn = <<>>
    /\ cOut = NoCodec

\* a command starts: the per-command history is cleared
StartCmd ==
    /\ pc = "idle"
    /\ ncmds < MaxCmds
    /\ ncmds' = ncmds + 1
    /\ rets' = {}
    /\ trees' = {}
    /\ failedDirs' = {}
    /\ childFault' = FALSE
    /\ done' = InitStore

\* the command ends
EndCmd(st, err, stdout) ==
    /\ pc' = "idle"
    /\ stack' = <<>>
    /\ io' = NoIO
    /\ cmd' = NoCmd
    /\ out' = Outcome(cmd.name, cmd.arg, st, err, stdout)

(***************************************************************************)
(* createObjectFromFile and createTreeFromDir.                             *)
(***************************************************************************)
\* the object createObjectFromFile builds for the file node n
createObjectFromFile(n) ==
    Object(ObjKindBlob, Sha1Sum(blobBytes(n.data)), Base(n.path), ObjectModeFile)

\* the object createTreeFromDir builds for directory dir, whose serialized
\* tree is contents; Kind is not set and keeps its zero value
treeObject(dir, contents) ==
    Object(ObjKindBlob, Sha1Sum(contents), PathStr(dir), ObjectModeDir)

\* the build treats no directory as empty
IsEmptyBuild_never(entries) == FALSE

\* len(entries) == 0: nothing to write for this directory
IsEmptyBuild(entries) == Len(entries) = 0

StackDirs == {stack[i].dir : i \in 1..Len(stack)}

\* createTreeFromDir of the innermost directory returns obj (NilObject for nil)
ReturnTree(obj) ==
    /\ rets' = rets \cup {[dir |-> Top.dir, obj |-> obj]}
    /\ IF Len(stack) = 1
       THEN LET stdout == IF obj = NilObject THEN <<>> ELSE Hex(obj.ShaHash) \o <<10>>
            IN  /\ EndCmd("ok", "", stdout)
                /\ roots' = Append(roots, stdout)
       ELSE LET parent == stack[Len(stack) - 1]
                parent2 == [parent EXCEPT
                              !.names = Tail(@),
                              !.entries = IF obj = NilObject THEN @ ELSE Append(@, obj)]
            IN  /\ stack' = SubSeq(stack, 1, Len(stack) - 2) \o <<parent2>>
                /\ pc' = "walk"
                /\ io' = NoIO
                /\ UNCHANGED <<cmd, out, roots>>

\* an error is returned through every active createTreeFromDir call
Abort(dirs) ==
    /\ EndCmd("err", "io", <<>>)
    /\ failedDirs' = dirs

\* write-tree: createTreeFromDir(".") lists the working directory
WriteTree ==
    /\ StartCmd
    /\ cmd' = [name |-> "write-tree", arg |-> <<>>]
    /\ \E listing \in Orders(Children(fs, <<>>)) :
          stack' = <<Frame(<<>>, readDirNames(listing))>>
    /\ pc' = "walk"
    /\ UNCHANGED <<fs, store, io, out, faults, pre, roots, hashed, codecVars>>

Walking == pc = "walk" /\ Top.names # <<>>

NextNode == Node(fs, Top.dir \o <<Head(Top.names)>>)

\* processFile on a child named .git returns SkipDir: a directory is skipped;
\* for a file, Walk skips what is left of the containing directory
WalkGit ==
    /\ Walking
    /\ Head(Top.names) = DotGit
    /\ stack' = SetTop([Top EXCEPT !.names = IF NextNode.dir THEN Tail(@) ELSE <<>>])
    /\ UNCHANGED <<fs, store, pc, io, cmd, out, ncmds, faults, pre, histVars, codecVars>>

\* processFile on a subdirectory: the recursive createTreeFromDir call
WalkDir ==
    /\ Walking
    /\ Head(Top.names) # DotGit
    /\ NextNode.dir
    /\ \E listing \in Orders(Children(fs, NextNode.path)) :
          stack' = stack \o <<Frame(NextNode.path, readDirNames(listing))>>
    /\ UNCHANGED <<fs, store, pc, io, cmd, out, ncmds, faults, pre, histVars, codecVars>>

\* the subdirectory cannot be listed: Walk hands the error to processFile
WalkDirFault ==
    /\ Walking
    /\ Head(Top.names) # DotGit
    /\ NextNode.dir
    /\ faults < MaxFaults
    /\ faults' = faults + 1
    /\ childFault' = TRUE
    /\ Abort(StackDirs)
    /\ UNCHANGED <<fs, store, ncmds, pre, roots, hashed, rets, trees, done, codecVars>>

\* processFile on a file: createObjectFromFile reads it and starts the write
WalkFile ==
    /\ Walking
    /\ Head(Top.names) # DotGit
    /\ ~NextNode.dir
    /\ io' = BeginWrite(createObjectFromFile(NextNode), blobBytes(NextNode.data), "blob")
    /\ pc' = "io"
    /\ pre' = store
    /\ UNCHANGED <<fs, store, stack, cmd, out, ncmds, faults, histVars, codecVars>>

\* os.ReadFile fails
ReadFileFault ==
    /\ Walking
    /\ Head(Top.names) # DotGit
    /\ ~NextNode.dir
    /\ faults < MaxFaults
    /\ faults' = faults + 1
    /\ childFault' = TRUE
    /\ Abort(StackDirs)
    /\ UNCHANGED <<fs, store, ncmds, pre, roots, hashed, rets, trees, done, codecVars>>

\* the walk is over and nothing was collected: return nil, nil
FinishEmpty ==
    /\ pc = "walk"
    /\ Top.names = <<>>
    /\ IsEmptyBuild(Top.entries)
    /\ ReturnTree(NilObject)
    /\ UNCHANGED <<fs, store, ncmds, faults, pre, hashed, trees, failedDirs, childFault,
                   done, codecVars>>

\* the walk is over: sort, serialize, hash and start writing the tree
FinishTree ==
    /\ pc = "walk"
    /\ Top.names = <<>>
    /\ ~IsEmptyBuild(Top.entries)
    /\ LET sorted == SortEntries(Top.entries)
           contents == serializeTreeObject(sorted)
       IN  /\ stack' = SetTop([Top EXCEPT !.entries = sorted])
           /\ io' = BeginWrite(treeObject(Top.dir, contents), contents, "tree")
    /\ pc' = "io"
    /\ pre' = store
    /\ UNCHANGED <<fs, store, cmd, out, ncmds, faults, histVars, codecVars>>

\* hash-object -w <file>
HashObject ==
    /\ StartCmd
    /\ \E n \in fs :
          /\ ~n.dir
          /\ cmd' = [name |-> "hash-object", arg |-> PathStr(n.path)]
          /\ io' = BeginWrite(createObjectFromFile(n), blobBytes(n.data), "hash-object")
    /\ pc' = "io"
    /\ pre' = store
    /\ UNCHANGED <<fs, store, stack, out, faults, roots, hashed, codecVars>>

(***************************************************************************)
(* Object.writeToDisk, one action per call it makes: os.MkdirAll,          *)
(* os.Create, and compress, which is zlib's Write followed by the deferred *)
(* Close whose error is dropped.  For an object of this size Write puts    *)
(* the zlib header in the file and Close puts the rest.                    *)
(***************************************************************************)
IoActive(step) == pc = "io" /\ io.step = step

\* the write in progress is part of processing a child of some directory
IsChildWrite == io.caller = "blob" \/ (io.caller = "tree" /\ Len(stack) > 1)

\* the file whose contents hash-object was given
FileAt(arg) == CHOOSE n \in fs : ~n.dir /\ PathStr(n.path) = arg

\* writeToDisk returned nil: the caller goes on
IoDone ==
    /\ done' = [p \in DOMAIN done \cup {io.path} |->
                   IF p = io.path THEN store'[p] ELSE done[p]]
    /\ CASE io.caller = "hash-object" ->
              /\ EndCmd("ok", "", Hex(io.obj.ShaHash))
              /\ hashed' = hashed \cup {<<Hex(io.obj.ShaHash), FileAt(cmd.arg).data>>}
              /\ UNCHANGED <<rets, roots>>
         [] io.caller = "blob" ->
              /\ stack' = SetTop([Top EXCEPT !.names = Tail(@),
                                             !.entries = Append(@, io.obj)])
              /\ pc' = "walk"
              /\ io' = NoIO
              /\ UNCHANGED <<cmd, out, roots, rets, hashed>>
         [] io.caller = "tree" ->
              /\ ReturnTree(io.obj)
              /\ UNCHANGED hashed

\* writeToDisk returned an error: the command ends with it
IoFail ==
    /\ faults < MaxFaults
    /\ faults' = faults + 1
    /\ childFault' = (childFault \/ IsChildWrite)
    /\ IF io.caller = "hash-object" THEN Abort({})
       ELSE IF io.caller = "tree" THEN Abort(StackDirs \ {Top.dir})
       ELSE Abort(StackDirs)
    /\ UNCHANGED <<fs, store, ncmds, pre, roots, hashed, rets, trees, done, codecVars>>

MkdirAll ==
    /\ IoActive("mkdir")
    /\ io' = [io EXCEPT !.step = "create"]
    /\ UNCHANGED <<fs, store, pc, stack, cmd, out, ncmds, faults, pre, histVars, codecVars>>

MkdirAllFault == IoActive("mkdir") /\ IoFail

\* os.Create: the file is created, or truncated when it exists
Create ==
    /\ IoActive("create")
    /\ store' = Put(io.path, <<>>)
    /\ io' = [io EXCEPT !.step = "zwrite"]
    /\ trees' = IF io.caller = "tree"
                THEN trees \cup {[dir |-> Top.dir, entries |-> Top.entries]}
                ELSE trees
    /\ UNCHANGED <<fs, pc, stack, cmd, out, ncmds, faults, pre, roots, hashed, rets,
                   failedDirs, childFault, done, codecVars>>

CreateFault == IoActive("create") /\ IoFail

\* zw.Write: the zlib header reaches the file, the data is buffered
ZWrite ==
    /\ IoActive("zwrite")
    /\ store' = Put(io.path, ZlibHeader)
    /\ io' = [io EXCEPT !.step = "zclose"]
    /\ UNCHANGED <<fs, pc, stack, cmd, out, ncmds, faults, pre, histVars, codecVars>>

\* zw.Write fails: compress returns the error
ZWriteFault == IoActive("zwrite") /\ IoFail

\* the deferred zw.Close writes the compressed data and the checksum
ZClose ==
    /\ IoActive("zclose")
    /\ store' = Put(io.path, Compressed(io.data))
    /\ IoDone
    /\ UNCHANGED <<fs, ncmds, faults, pre, trees, failedDirs, childFault, codecVars>>

\* the deferred zw.Close fails: its error is dropped and compress returns nil
ZCloseFault ==
    /\ IoActive("zclose")
    /\ faults < MaxFaults
    /\ faults' = faults + 1
    /\ childFault' = (childFault \/ IsChildWrite)
    /\ store' = store
    /\ IoDone
    /\ UNCHANGED <<fs, ncmds, pre, trees, failedDirs, codecVars>>

(***************************************************************************)
(* cat-file -p and ls-tree (commands.go).                                  *)
(***************************************************************************)
Res(st, err, stdout) == [st |-> st, err |-> err, stdout |-> stdout]

\* the bytes after the last 0x00
payloadOf_afterLastNul(bytes) == From(bytes, LastIndexByte(bytes, NUL) + 1)

\* the payload catFile prints: the bytes after the first 0x00
payloadOf(bytes) == From(bytes, IndexByte(bytes, NUL) + 1)

catFile(hash) ==
    IF Len(hash) < 2 THEN Res("err", "hash", <<>>)
    ELSE LET path == filePathFromObjectHash(hash).path
         IN  IF path \notin DOMAIN store THEN Res("err", "open", <<>>)
             ELSE LET d == decompress(store[path])
                  IN  IF d.st # "ok" THEN Res("err", "decompress", <<>>)
                      ELSE IF IndexByte(d.data, NUL) = 0 THEN Res("err", "object", <<>>)
                      ELSE Res("ok", "", payloadOf(d.data))

\* stringifyObject, and the newline fmt.Println adds
stringifyObject(entry, nameOnly) ==
    IF nameOnly THEN entry.FileName \o <<10>>
    ELSE entry.Mode \o <<SPACE>> \o entry.FileName \o <<SPACE>> \o Hex(entry.ShaHash)
         \o <<10>>

RECURSIVE printEntries(_, _)
printEntries(entries, nameOnly) ==
    IF entries = <<>> THEN <<>>
    ELSE stringifyObject(Head(entries), nameOnly) \o printEntries(Tail(entries), nameOnly)

\* the parsed entries printed in the order the parser returned them
sortByCmpObjects_none(entries) == entries

\* slices.SortFunc(tree, cmpObjects): the parsed entries sorted by name
sortByCmpObjects(entries) == SortEntries(entries)

lsTree(hash, nameOnly) ==
    LET p == filePathFromObjectHash(hash)
    IN  IF p.st = "panic" THEN Res("panic", "", <<>>)
        ELSE IF p.path \notin DOMAIN store THEN Res("err", "open", <<>>)
        ELSE LET d == decompress(store[p.path])
             IN  IF d.st # "ok" THEN Res("err", "decompress", <<>>)
                 ELSE LET t == parseTreeObject(d.data)
                      IN  IF t.st # "ok" THEN Res(t.st, "parse", <<>>)
                          ELSE Res("ok", "",
                                   printEntries(sortByCmpObjects(t.entries), nameOnly))

\* hash arguments that are not 40 hex digits: "a" and "ab"
BadHashes == {<<97>>, <<97, 98>>}

\* the hashes hash-object printed
BlobArgs == {pair[1] : pair \in hashed}

\* the hashes write-tree printed, without the newline
TreeArgs ==
    {SubSeq(roots[i], 1, Len(roots[i]) - 1) : i \in {j \in 1..Len(roots) : roots[j] # <<>>}}

CatFile ==
    /\ StartCmd
    /\ \E h \in BlobArgs \cup BadHashes :
          LET r == catFile(h)
          IN  out' = Outcome("cat-file", h, r.st, r.err, r.stdout)
    /\ UNCHANGED <<fs, store, pc, stack, io, cmd, faults, pre, roots, hashed, codecVars>>

LsTree ==
    /\ StartCmd
    /\ \E h \in TreeArgs \cup BadHashes, nameOnly \in BOOLEAN :
          LET r == lsTree(h, nameOnly)
          IN  out' = Outcome(IF nameOnly THEN "ls-tree --name-only" ELSE "ls-tree",
                             h, r.st, r.err, r.stdout)
    /\ UNCHANGED <<fs, store, pc, stack, io, cmd, faults, pre, roots, hashed, codecVars>>

Next ==
    \/ WriteTree
    \/ WalkGit
    \/ WalkDir
    \/ WalkDirFault
    \/ WalkFile
    \/ ReadFileFault
    \/ FinishEmpty
    \/ FinishTree
    \/ HashObject
    \/ MkdirAll
    \/ MkdirAllFault
    \/ Create
    \/ CreateFault
    \/ ZWrite
    \/ ZWriteFault
    \/ ZClose
    \/ ZCloseFault
    \/ CatFile
    \/ LsTree

Spec == Init /\ [][Next]_vars

(***************************************************************************)
(* The tree codec on its own: serializeTreeObject applied to entry lists,  *)
(* parseTreeObject applied to what it produced and to every prefix of it.  *)
(***************************************************************************)
\* names: "a", "a b" and " b"
CodecNames == {<<97>>, <<97, 32, 98>>, <<32, 98>>}

CodecModes == {ObjectModeFile, ObjectModeDir}

\* raw hashes: a digest, twenty 0x00 bytes, twenty spaces
CodecHashes ==
    {Sha1Sum(ContentHi), [i \in 1..HashLen |-> NUL], [i \in 1..HashLen |-> SPACE]}

CodecEntries ==
    {Object(KindOfName(n), h, n, m) : n \in CodecNames, h \in CodecHashes, m \in CodecModes}

UniqueNames(E) == \A i, j \in 1..Len(E) : i # j => E[i].FileName # E[j].FileName

\* the entry lists of at most MaxEntries entries with unique names
EntryLists ==
    UNION { {E \in [1..n -> CodecEntries] : UniqueNames(E)} : n \in 0..MaxEntries }

InitCodec ==
    /\ fs = {}
    /\ IdleState
    /\ cOp = "none"
    /\ cIn = <<>>
    /\ cOut = NoCodec

buildVars ==
    <<fs, store, pc, stack, io, cmd, out, ncmds, faults, pre, histVars>>

\* serializeTreeObject(E)
Encode ==
    /\ cOp = "none"
    /\ \E E \in EntryLists :
          /\ cIn' = E
          /\ cOut' = [st |-> "ok", entries |-> <<>>, bytes |-> serializeTreeObject(E)]
    /\ cOp' = "encoded"
    /\ UNCHANGED buildVars

\* parseTreeObject of the serialized tree
Decode ==
    /\ cOp = "encoded"
    /\ LET r == parseTreeObject(cOut.bytes)
       IN  cOut' = [st |-> r.st, entries |-> r.entries, bytes |-> cOut.bytes]
    /\ cOp' = "decoded"
    /\ UNCHANGED <<cIn, buildVars>>

\* parseTreeObject of the serialized tree cut after k bytes
DecodeCut ==
    /\ cOp = "encoded"
    /\ \E k \in 0..(Len(cOut.bytes) - 1) :
          LET cut == SubSeq(cOut.bytes, 1, k)
              r == parseTreeObject(cut)
          IN  cOut' = [st |-> r.st, entries |-> r.entries, bytes |-> cut]
    /\ cOp' = "decodedCut"
    /\ UNCHANGED <<cIn, buildVars>>

\* the hash, in hex, under which the serialized tree is stored
StoredHash == Hex(Sha1Sum(cOut.bytes))

\* writeToDisk of the serialized tree, its entries in the order given: the
\* object file holds what compress produces
StoreTree ==
    /\ cOp = "encoded"
    /\ store' = Put(filePathFromObjectHash(StoredHash).path, Compressed(cOut.bytes))
    /\ cOp' = "stored"
    /\ UNCHANGED <<fs, pc, stack, io, cmd, out, ncmds, faults, pre, histVars, cIn, cOut>>

\* ls-tree [--name-only] <hash> of the stored tree
ListTree ==
    /\ cOp = "stored"
    /\ \E nameOnly \in BOOLEAN :
          LET r == lsTree(StoredHash, nameOnly)
          IN  out' = Outcome(IF nameOnly THEN "ls-tree --name-only" ELSE "ls-tree",
                             StoredHash, r.st, r.err, r.stdout)
    /\ cOp' = "listed"
    /\ UNCHANGED <<fs, store, pc, stack, io, cmd, ncmds, faults, pre, histVars, cIn, cOut>>

NextCodec ==
    \/ Encode
    \/ Decode
    \/ DecodeCut
    \/ StoreTree
    \/ ListTree

SpecCodec == InitCodec /\ [][NextCodec]_vars

(***************************************************************************)
(* Properties of the tree codec, checked under SpecCodec.                  *)
(***************************************************************************)
\* C2: for a non-empty entry list E with unique names, the parser applied to
\* the serialized E returns, without error, a list as long as E whose i-th
\* entry has the mode, the name and the hash of E's i-th entry.  (Names and
\* modes are non-empty and hold no 0x00; names may hold spaces, hashes 0x00.)
C2_RoundTrip ==
    (cOp = "decoded" /\ Len(cIn) > 0) =>
        /\ cOut.st = "ok"
        /\ Len(cOut.entries) = Len(cIn)
        /\ \A i \in 1..Len(cIn) :
              /\ cOut.entries[i].Mode = cIn[i].Mode
              /\ cOut.entries[i].FileName = cIn[i].FileName
              /\ cOut.entries[i].ShaHash = cIn[i].ShaHash

\* a tree of two entries, the first named "a b" with a hash of 0x00 bytes,
\* was serialized and parsed back
C2_Witness ==
    /\ cOp = "decoded"
    /\ Len(cIn) = 2
    /\ cIn[1].FileName = <<97, 32, 98>>
    /\ cIn[1].ShaHash = [i \in 1..HashLen |-> NUL]
    /\ cOut.st = "ok"
    /\ Len(cOut.entries) = 2

\* the length of the serialized tree up to and including its first j entries
BoundaryLen(E, j) == Len(serializeTreeObject(E)) - Len(serializeBody(SubSeq(E, j + 1, Len(E))))

\* the cut falls inside an entry: some body is left and it does not end with
\* a whole entry
CutInsideEntry ==
    /\ Len(cOut.bytes) > BoundaryLen(cIn, 0)
    /\ \A j \in 1..Len(cIn) : Len(cOut.bytes) # BoundaryLen(cIn, j)

\* C3: parsing a tree cut inside an entry returns an error value, and no
\* input makes the parser abort the process.
C3_TruncatedIsError ==
    cOp = "decodedCut" =>
        /\ cOut.st # "panic"
        /\ CutInsideEntry => cOut.st = "err"

\* C10: the tree object with an empty body, "tree 0" and 0x00, parses to an
\* empty entry sequence without error.
C10_EmptyTreeParses ==
    (cOp = "decoded" /\ cIn = <<>>) =>
        /\ cOut.bytes = TreePrefix \o <<48, NUL>>
        /\ cOut.st = "ok"
        /\ cOut.entries = <<>>

\* the positions of the newlines in s
NlPos(s) == {i \in 1..Len(s) : s[i] = 10}

\* the position of the k-th newline in s, 0 for k = 0
NthNl(s, k) ==
    IF k = 0 THEN 0
    ELSE CHOOSE p \in NlPos(s) : Cardinality({q \in NlPos(s) : q < p}) = k - 1

\* the lines of s, each ended by a newline
Lines(s) ==
    [k \in 1..Cardinality(NlPos(s)) |-> SubSeq(s, NthNl(s, k - 1) + 1, NthNl(s, k) - 1)]

\* the line that lists entry e
LineOf(e, nameOnly) ==
    IF nameOnly THEN e.FileName
    ELSE e.Mode \o <<SPACE>> \o e.FileName \o <<SPACE>> \o Hex(e.ShaHash)

\* stored tree E is listed in the order p of its entries
ListedAs(E, p, L, nameOnly) ==
    /\ \A i \in 1..Len(E) : L[i] = LineOf(E[p[i]], nameOnly)
    /\ \A i, j \in 1..Len(E) : i < j => Compare(E[p[i]].FileName, E[p[j]].FileName) < 0

\* C11: ls-tree of a stored tree prints one line per stored entry and nothing
\* else, the lines in ascending byte-wise order of the entries' names,
\* whatever the order of the entries in the stored object.
C11_ListedInNameOrder ==
    cOp = "listed" =>
        LET L == Lines(out.stdout)
            nameOnly == out.cmd = "ls-tree --name-only"
        IN  /\ Len(cIn) > 0 => out.st = "ok"
            /\ NthNl(out.stdout, Len(L)) = Len(out.stdout)
            /\ Len(L) = Len(cIn)
            /\ \E p \in Orders(1..Len(cIn)) : ListedAs(cIn, p, L, nameOnly)

\* a tree stored with "a b" before "a" was listed by name: "a", then "a b"
C11_Witness ==
    /\ cOp = "listed"
    /\ out.cmd = "ls-tree --name-only"
    /\ out.st = "ok"
    /\ Len(cIn) = 2
    /\ cIn[1].FileName = <<97, 32, 98>>
    /\ cIn[2].FileName = <<97>>
    /\ out.stdout = <<97, 10, 97, 32, 98, 10>>

(***************************************************************************)
(* Properties of the builder, the store and the commands, checked under    *)
(* Spec.                                                                   *)
(***************************************************************************)
\* C1: every write-tree of the same worktree prints the same root hash,
\* whatever the order in which the system lists each directory.
C1_SameRootHash == \A i, j \in 1..Len(roots) : roots[i] = roots[j]

\* two write-tree commands of a worktree with three or more children in the
\* root, a file named .git among them, both printed a hash
C1_Witness ==
    /\ Len(roots) = 2
    /\ roots[1] # <<>>
    /\ Cardinality(Children(fs, <<>>)) >= 3
    /\ \E n \in fs : n.path = <<DotGit>> /\ ~n.dir

\* the write-tree command that ended last
TreeCmdEnded == pc = "idle" /\ out.cmd = "write-tree"

\* C4: when processing a child fails, write-tree returns an error, no tree is
\* written for the directories being built, and the objects written for
\* earlier children keep their bytes.
C4_ChildFailureAborts ==
    (TreeCmdEnded /\ childFault) =>
        /\ out.st = "err"
        /\ \A t \in trees : t.dir \notin failedDirs
        /\ \A p \in DOMAIN done : store[p] = done[p]

\* C5: every object file that existed when a writeToDisk call began holds the
\* same bytes during the call and after it.
C5_NoMutation == \A p \in DOMAIN pre : p \in DOMAIN store /\ store[p] = pre[p]

\* C6: cat-file -p of a hash that hash-object printed for contents C prints
\* exactly C (no I/O fault having hit the store).
C6_BlobRoundTrip ==
    (out.cmd = "cat-file" /\ faults = 0) =>
        \A pair \in hashed :
            pair[1] = out.arg => (out.st = "ok" /\ out.stdout = pair[2])

\* contents holding a 0x00 byte were stored by hash-object and printed back
C6_Witness ==
    /\ out.cmd = "cat-file"
    /\ faults = 0
    /\ out.st = "ok"
    /\ <<out.arg, ContentNul>> \in hashed
    /\ out.stdout = ContentNul

\* dir holds no file at any depth, children named .git set aside
NoFiles(dir) ==
    \A n \in fs :
        (IsUnder(n.path, dir) /\ ~n.dir) =>
            \E i \in (Len(dir) + 1)..Len(n.path) : n.path[i] = DotGit

ParentOf(dir) == SubSeq(dir, 1, Len(dir) - 1)

HasEntryNamed(entries, names) == \E i \in 1..Len(entries) : entries[i].FileName \in names

\* C7: createTreeFromDir of a directory without files returns nil, writes no
\* tree for it, and its parent's tree holds no entry for it.
C7_EmptyDirsPruned ==
    \A r \in rets :
        NoFiles(r.dir) =>
            /\ r.obj = NilObject
            /\ \A t \in trees : t.dir # r.dir
            /\ r.dir # <<>> =>
                  /\ \A t \in trees :
                        t.dir = ParentOf(r.dir) =>
                            ~HasEntryNamed(t.entries, {PathStr(r.dir), Base(r.dir)})
                  /\ \A i \in 1..Len(stack) :
                        stack[i].dir = ParentOf(r.dir) =>
                            ~HasEntryNamed(stack[i].entries, {PathStr(r.dir), Base(r.dir)})

\* write-tree wrote the root's tree; s and s/t, which hold no file, returned nil
C7_Witness ==
    /\ TreeCmdEnded
    /\ out.st = "ok"
    /\ [dir |-> <<NmS, NmT>>, obj |-> NilObject] \in rets
    /\ [dir |-> <<NmS>>, obj |-> NilObject] \in rets
    /\ \E t \in trees : t.dir = <<>>

\* C8: the object createTreeFromDir returns for a directory is of kind Tree,
\* has mode 40000 and is named by the directory's base name.
C8_TreeObjectShape ==
    \A r \in rets :
        r.obj # NilObject =>
            /\ r.obj.Kind = ObjKindTree
            /\ r.obj.Mode = ObjectModeDir
            /\ r.obj.FileName = Base(r.dir)

IsHexDigit(c) == c \in 48..57 \/ c \in 97..102

IsHash40(h) == Len(h) = 2 * HashLen /\ \A i \in 1..Len(h) : IsHexDigit(h[i])

\* C9: a 40-digit hex hash maps to <objects>/<2 digits>/<38 digits>, and
\* cat-file and ls-tree reject any other hash argument with an invalid-hash
\* error.
C9_HashValidated ==
    out.cmd \in {"cat-file", "ls-tree", "ls-tree --name-only"} =>
        IF IsHash40(out.arg)
        THEN filePathFromObjectHash(out.arg) =
                [st |-> "ok",
                 path |-> ObjectsDir \o <<SLASH>> \o SubSeq(out.arg, 1, 2) \o <<SLASH>>
                          \o SubSeq(out.arg, 3, 40)]
        ELSE out.st = "err" /\ out.err = "hash"

\* the direct children of dir that are files, and those that are directories
FileChildren(dir) ==
    {n \in fs : ~n.dir /\ Len(n.path) = Len(dir) + 1 /\ IsUnder(n.path, dir)}

DirChildren(dir) ==
    {n \in fs : n.dir /\ Len(n.path) = Len(dir) + 1 /\ IsUnder(n.path, dir)}

\* dir holds a file, at some depth, that is not inside a directory named .git
HasFileBelow(dir) ==
    \E n \in fs :
        /\ ~n.dir
        /\ IsUnder(n.path, dir)
        /\ \A i \in (Len(dir) + 1)..(Len(n.path) - 1) : n.path[i] # DotGit

\* the child directories of dir that are due an entry
BuiltDirChildren(dir) ==
    {n \in DirChildren(dir) : Base(n.path) # DotGit /\ HasFileBelow(n.path)}

\* the positions of the entries of mode m with a name in names
EntriesNamed(entries, m, names) ==
    {i \in 1..Len(entries) : entries[i].Mode = m /\ entries[i].FileName \in names}

ChildPath(e) == filePathFromObjectHash(Hex(e.ShaHash)).path

\* the bytes are a whole object file: they decompress without error
IsComplete(bytes) == decompress(bytes).st = "ok"

\* the entries of the tree objects that the store holds whole
StoredTreeEntries ==
    {parseTreeObject(decompress(store[p]).data).entries :
        p \in {q \in DOMAIN store :
                  /\ IsComplete(store[q])
                  /\ HasPrefix(decompress(store[q]).data, TreePrefix)
                  /\ parseTreeObject(decompress(store[q]).data).st = "ok"}}

\* C13: at every step of a build, every child that a tree of this build
\* refers to was written to the store, whole, before the tree's file was
\* created, and no tree held by the store refers to a child that the store
\* does not hold.
C13_BottomUp ==
    /\ \A t \in trees :
          \A i \in 1..Len(t.entries) :
              /\ ChildPath(t.entries[i]) \in DOMAIN done
              /\ IsComplete(done[ChildPath(t.entries[i])])
    /\ \A E \in StoredTreeEntries :
          \A i \in 1..Len(E) : ChildPath(E[i]) \in DOMAIN store

====
